---- MODULE Spec2Model ----
(***************************************************************************)
(* Model of the request handling of app.py (AI-Shopping-Assistant):        *)
(* the two POST routes, the prompt builders and the gateway client         *)
(* call_gemini_api.                                                        *)
(*                                                                         *)
(* Python values are records [t, v]: t is the Python type, v the content.  *)
(* A str is a sequence of tokens (literal pieces of the source's string    *)
(* literals and opaque pieces: the query, the budget, the upstream's       *)
(* text), so that + and f-strings are concatenations and "is part of the   *)
(* prompt" is a subsequence test.                                          *)
(*                                                                         *)
(* A call of call_gemini_api takes three steps: the POST is issued         *)
(* (requests.post, line 28), the upstream answers or the transport fails   *)
(* (the environment), and the rest of the try/except computes the value    *)
(* returned (lines 33-46).  The route blocks meanwhile.                    *)
(***************************************************************************)
EXTENDS Naturals, Sequences, FiniteSets, TLC

VARIABLES
    pc,        \* position of the request handler
    route,     \* the route of the request being handled
    data,      \* request.json of the request being handled
    mock,      \* per gateway user: does the upstream give it a usable reply
    loc,       \* the local variables of the route function
    net,       \* the call_gemini_api invocation in progress
    trace,     \* history: builder calls, POSTs and returns of this request
    response,  \* the (body, status) returned by the route function
    served     \* number of requests received so far

vars == <<pc, route, data, mock, loc, net, trace, response, served>>

\* Number of requests the server receives, one after the other.
MaxRequests == 2

----------------------------------------------------------------------------
\* Python values

None == [t |-> "NoneType", v |-> <<>>]
Unbound == [t |-> "unbound", v |-> <<>>]
Str(s) == [t |-> "str", v |-> s]
Dict(d) == [t |-> "dict", v |-> d]

\* seeded fault: `is not None` in place of truthiness
Truthy_IsNotNone(x) == x.t = "str"

\* bool(x) of a request field: None and "" are falsy
Truthy(x) == x.t = "str" /\ x.v # <<>>

\* isinstance(x, dict) and "error" in x
IsErrorRecord(x) == x.t = "dict" /\ "error" \in DOMAIN x.v

\* request.json fields: absent (data.get gives None), empty, or a value
FieldValues(tok) == {None, Str(<<>>), Str(<<tok>>)}

\* the texts the upstream model may produce
Texts == {<<"T1">>, <<"T2">>}

----------------------------------------------------------------------------
\* The upstream API and the transport (requests.post)

StatusCodes == {200, 300, 404, 503}

ShapedDoc(text) ==
    [candidates |-> << [content |-> [parts |-> << [text |-> text] >>]] >>]
BlockedDoc == [promptFeedback |-> "blocked"]

Bodies ==
    {[fmt |-> "json", doc |-> ShapedDoc(t), raw |-> <<"candidates-json">> \o t] : t \in Texts}
    \cup {[fmt |-> "json", doc |-> BlockedDoc, raw |-> <<"promptFeedback-json">>],
          [fmt |-> "html", doc |-> BlockedDoc, raw |-> <<"html-page">>]}

NoBody == [fmt |-> "none", doc |-> BlockedDoc, raw |-> <<>>]

Replies ==
    {[transport |-> "ok", status |-> s, body |-> b] : s \in StatusCodes, b \in Bodies}
    \cup {[transport |-> "ConnectionError", status |-> 0, body |-> NoBody]}

\* Response.raise_for_status(): HTTPError for 4xx and 5xx only
RaisesForStatus(status) == status >= 400 /\ status < 600

HasShape(body) == body.fmt = "json" /\ "candidates" \in DOMAIN body.doc

\* a reply from which the client gets a text
Usable(reply) ==
    /\ reply.transport = "ok"
    /\ ~RaisesForStatus(reply.status)
    /\ HasShape(reply.body)

----------------------------------------------------------------------------
\* call_gemini_api

GeminiHTTPError(reply) ==
    Dict([error |-> Str(<<"Gemini API HTTP Error: ", ToString(reply.status),
                          ". Details: ">> \o reply.body.raw)])

UnexpectedError(e) ==
    Dict([error |-> Str(<<"An unexpected error occurred during AI generation: ", e>>)])

\* seeded fault: response.raise_for_status() is missing
GeminiResult_NoRaiseForStatus(reply) ==
    IF reply.transport # "ok" THEN UnexpectedError(reply.transport)
    ELSE IF reply.body.fmt # "json" THEN UnexpectedError("JSONDecodeError")
    ELSE IF "candidates" \notin DOMAIN reply.body.doc THEN UnexpectedError("TypeError")
    ELSE Str(reply.body.doc.candidates[1].content.parts[1].text)

\* lines 33-46: the value call_gemini_api returns for the outcome of its POST
GeminiResult(reply) ==
    IF reply.transport # "ok" THEN UnexpectedError(reply.transport)
    ELSE IF RaisesForStatus(reply.status) THEN GeminiHTTPError(reply)
    ELSE IF reply.body.fmt # "json" THEN UnexpectedError("JSONDecodeError")
    ELSE IF "candidates" \notin DOMAIN reply.body.doc THEN UnexpectedError("TypeError")
    ELSE Str(reply.body.doc.candidates[1].content.parts[1].text)

Ev(e, f, a) == [ev |-> e, fn |-> f, args |-> a]

NoReply == [transport |-> "none", status |-> 0, body |-> NoBody]
NoPayload == [contents |-> <<>>, systemInstruction |-> "", tools |-> ""]
NetIdle == [state |-> "idle", fn |-> "", payload |-> NoPayload,
            reply |-> NoReply, ret |-> Unbound]

\* fn calls call_gemini_api(payload): the POST goes out (lines 27-32)
Post(fn, args, payload) ==
    /\ net' = [state |-> "sent", fn |-> fn, payload |-> payload,
               reply |-> NoReply, ret |-> Unbound]
    /\ trace' = trace \o << Ev("call", fn, args),
                            Ev("post", fn, <<Str(payload.contents)>>) >>

\* the upstream answers, or the transport fails
Upstream ==
    /\ net.state = "sent"
    /\ \E r \in Replies :
        /\ Usable(r) <=> mock[net.fn]
        /\ net' = [net EXCEPT !.state = "replied", !.reply = r]
    /\ UNCHANGED <<pc, route, data, mock, loc, trace, response, served>>

\* lines 33-46
GeminiReturn ==
    /\ net.state = "replied"
    /\ net' = [net EXCEPT !.state = "returned", !.ret = GeminiResult(net.reply)]
    /\ trace' = Append(trace, Ev("return", net.fn, <<GeminiResult(net.reply)>>))
    /\ UNCHANGED <<pc, route, data, mock, loc, response, served>>

----------------------------------------------------------------------------
\* Prompt builders

Payload(prompt, system_instruction) ==
    [contents |-> prompt, systemInstruction |-> system_instruction,
     tools |-> "google_search"]

generate_recommendations(prompt) ==
    Payload(prompt.v, "You are an expert shopping assistant. ...")

generate_comparison(recommendations_markdown) ==
    Payload(<<"Analyze the following list of product recommendations. Select the top two ... Product List:\n\n">>
              \o recommendations_markdown.v,
            "You are a product analyst. ...")

generate_price_trend(prompt) ==
    Payload(prompt.v, "You are a market analyst. ...")

\* seeded fault: the product list is left out of the persona prompt
generate_product_personas_NoList(recommendations_markdown) ==
    Payload(<<"Analyze the following list of product recommendations. For each product, create ... Product List:\n\n">>,
            "You are a creative marketing strategist. ...")

generate_product_personas(recommendations_markdown) ==
    Payload(<<"Analyze the following list of product recommendations. For each product, create ... Product List:\n\n">>
              \o recommendations_markdown.v,
            "You are a creative marketing strategist. ...")

\* builds system_instruction and falls off the end: no payload, no call
generate_price_tracker(query) == None

ask_product_ai(context, query) ==
    Payload(<<"Context: ">> \o context.v \o <<"\n\nQuestion: ">> \o query.v,
            "You are a helpful shopping assistant. ...")

----------------------------------------------------------------------------
\* Fallback texts of get_recommendations

ComparisonFallback == Str(<<"Comparison failed, but recommendations were successful.">>)
PersonaFallback == Str(<<"### Persona Analysis Unavailable">>)
PriceTrendFallback ==
    Str(<<"### Price Trend Analysis Unavailable\n\nCould not access live market data for price trend prediction. Please check retail sites for current sales.">>)
PriceTrackerFallback == Str(<<"Could not find a current price breakdown from major retailers.">>)

\* x = f(...); if isinstance(x, dict) and "error" in x: x = fallback
OrFallback(x, fallback) == IF IsErrorRecord(x) THEN fallback ELSE x

----------------------------------------------------------------------------
\* State

StageFns == {"generate_recommendations", "generate_comparison",
             "generate_product_personas", "generate_price_trend",
             "generate_price_tracker"}

NoLocals == [recommendations_markdown |-> Unbound,
             comparison_markdown |-> Unbound,
             persona_markdown |-> Unbound,
             price_trend_markdown |-> Unbound,
             price_tracker_markdown |-> Unbound,
             answer_markdown |-> Unbound]

NoResponse == [status |-> 0, json |-> [none |-> None]]

Init ==
    /\ pc = "idle"
    /\ route = "none"
    /\ data = [none |-> None]
    /\ mock = [none |-> FALSE]
    /\ loc = NoLocals
    /\ net = NetIdle
    /\ trace = <<>>
    /\ response = NoResponse
    /\ served = 0

\* a POST request arrives (the previous one, if any, has been answered)
Receive ==
    /\ pc \in {"idle", "done"}
    /\ served < MaxRequests
    /\ served' = served + 1
    /\ \/ /\ route' = "/get_recommendations"
          /\ \E q \in FieldValues("q1"), b \in FieldValues("b1") :
                data' = [shopping_query |-> q, budget |-> b]
          /\ mock' \in [StageFns -> BOOLEAN]
       \/ /\ route' = "/ask_product_ai"
          /\ \E c \in FieldValues("c1"), q \in FieldValues("q1") :
                data' = [context |-> c, query |-> q]
          /\ mock' \in [{"ask_product_ai"} -> BOOLEAN]
    /\ pc' = "recv"
    /\ loc' = NoLocals
    /\ net' = NetIdle
    /\ trace' = <<>>
    /\ response' = NoResponse

----------------------------------------------------------------------------
\* get_recommendations

recommendation_prompt(shopping_query, budget) ==
    Str(<<"Find product recommendations for: '">> \o shopping_query.v
        \o <<"'. The user's budget level is '">> \o budget.v
        \o <<"'. Find the best 3 options that match this request.">>)

price_trend_prompt(shopping_query) ==
    Str(<<"Analyze the market for products matching the description: '">>
        \o shopping_query.v \o <<"'.">>)

\* lines 158-179, up to the POST of generate_recommendations
GetRecommendationsBegin ==
    /\ pc = "recv"
    /\ route = "/get_recommendations"
    /\ IF ~(Truthy(data.shopping_query) /\ Truthy(data.budget))
       THEN /\ response' = [status |-> 400,
                            json |-> [error |-> Str(<<"Missing form data">>)]]
            /\ pc' = "done"
            /\ UNCHANGED <<net, trace>>
       ELSE /\ LET p == recommendation_prompt(data.shopping_query, data.budget)
               IN Post("generate_recommendations", <<p>>, generate_recommendations(p))
            /\ pc' = "L179"
            /\ UNCHANGED response
    /\ UNCHANGED <<route, data, mock, loc, served>>

\* seeded fault: a failed recommendations call is absorbed like a later stage's
RecommendationsReturned_Absorbed ==
    /\ pc = "L179"
    /\ net.state = "returned"
    /\ loc' = [loc EXCEPT !.recommendations_markdown =
                 OrFallback(net.ret, Str(<<"Recommendations unavailable">>))]
    /\ Post("generate_comparison", <<loc'.recommendations_markdown>>,
            generate_comparison(loc'.recommendations_markdown))
    /\ pc' = "L184"
    /\ UNCHANGED <<route, data, mock, response, served>>

\* lines 179-184: generate_recommendations has returned
RecommendationsReturned ==
    /\ pc = "L179"
    /\ net.state = "returned"
    /\ IF IsErrorRecord(net.ret)
       THEN /\ response' = [status |-> 500, json |-> net.ret.v]
            /\ pc' = "done"
            /\ UNCHANGED <<loc, net, trace>>
       ELSE /\ loc' = [loc EXCEPT !.recommendations_markdown = net.ret]
            /\ Post("generate_comparison", <<net.ret>>, generate_comparison(net.ret))
            /\ pc' = "L184"
            /\ UNCHANGED response
    /\ UNCHANGED <<route, data, mock, served>>

\* lines 184-188: generate_comparison has returned
ComparisonReturned ==
    /\ pc = "L184"
    /\ net.state = "returned"
    /\ loc' = [loc EXCEPT !.comparison_markdown = OrFallback(net.ret, ComparisonFallback)]
    /\ Post("generate_product_personas", <<loc.recommendations_markdown>>,
            generate_product_personas(loc.recommendations_markdown))
    /\ pc' = "L188"
    /\ UNCHANGED <<route, data, mock, response, served>>

\* lines 188-192: generate_product_personas has returned
PersonasReturned ==
    /\ pc = "L188"
    /\ net.state = "returned"
    /\ loc' = [loc EXCEPT !.persona_markdown = OrFallback(net.ret, PersonaFallback)]
    /\ LET p == price_trend_prompt(data.shopping_query)
       IN Post("generate_price_trend", <<p>>, generate_price_trend(p))
    /\ pc' = "L192"
    /\ UNCHANGED <<route, data, mock, response, served>>

\* the body of the 200 response, lines 203-209
Bundle(l) ==
    [recommendations_markdown |-> l.recommendations_markdown,
     comparison_markdown |-> l.comparison_markdown,
     price_trend_markdown |-> l.price_trend_markdown,
     persona_markdown |-> l.persona_markdown,
     price_tracker_markdown |-> l.price_tracker_markdown]

\* seeded fault: generate_price_tracker builds its payload and calls the gateway
PriceTrendReturned_TrackerCalls ==
    /\ pc = "L192"
    /\ net.state = "returned"
    /\ loc' = [loc EXCEPT
                 !.price_trend_markdown = OrFallback(net.ret, PriceTrendFallback)]
    /\ Post("generate_price_tracker", <<data.shopping_query>>,
            Payload(<<"Find the three lowest prices for: ">> \o data.shopping_query.v,
                    "You are a deal finder. ..."))
    /\ pc' = "L197"
    /\ UNCHANGED <<route, data, mock, response, served>>

\* lines 192-209: generate_price_trend has returned; generate_price_tracker
\* is called and returns at once; the response is built
PriceTrendReturned ==
    /\ pc = "L192"
    /\ net.state = "returned"
    /\ loc' = [loc EXCEPT
                 !.price_trend_markdown = OrFallback(net.ret, PriceTrendFallback),
                 !.price_tracker_markdown =
                     OrFallback(generate_price_tracker(data.shopping_query),
                                PriceTrackerFallback)]
    /\ trace' = Append(trace, Ev("call", "generate_price_tracker", <<data.shopping_query>>))
    /\ response' = [status |-> 200, json |-> Bundle(loc')]
    /\ pc' = "done"
    /\ UNCHANGED <<route, data, mock, net, served>>

----------------------------------------------------------------------------
\* ask_ai_route

\* seeded fault: `and` in place of `or` in the validation
AskBegin_BothMissing ==
    /\ pc = "recv"
    /\ route = "/ask_product_ai"
    /\ IF ~Truthy(data.context) /\ ~Truthy(data.query)
       THEN /\ response' = [status |-> 400,
                            json |-> [error |-> Str(<<"Missing context or query.">>)]]
            /\ pc' = "done"
            /\ UNCHANGED <<net, trace>>
       ELSE /\ Post("ask_product_ai", <<data.context, data.query>>,
                    ask_product_ai(data.context, data.query))
            /\ pc' = "L221"
            /\ UNCHANGED response
    /\ UNCHANGED <<route, data, mock, loc, served>>

\* lines 214-221, up to the POST of ask_product_ai
AskBegin ==
    /\ pc = "recv"
    /\ route = "/ask_product_ai"
    /\ IF ~Truthy(data.context) \/ ~Truthy(data.query)
       THEN /\ response' = [status |-> 400,
                            json |-> [error |-> Str(<<"Missing context or query.">>)]]
            /\ pc' = "done"
            /\ UNCHANGED <<net, trace>>
       ELSE /\ Post("ask_product_ai", <<data.context, data.query>>,
                    ask_product_ai(data.context, data.query))
            /\ pc' = "L221"
            /\ UNCHANGED response
    /\ UNCHANGED <<route, data, mock, loc, served>>

\* seeded fault: the error check of line 223 is missing
AskReturned_NoErrorCheck ==
    /\ pc = "L221"
    /\ net.state = "returned"
    /\ loc' = [loc EXCEPT !.answer_markdown = net.ret]
    /\ response' = [status |-> 200, json |-> [answer_markdown |-> net.ret]]
    /\ pc' = "done"
    /\ UNCHANGED <<route, data, mock, net, trace, served>>

\* lines 221-226: ask_product_ai has returned
AskReturned ==
    /\ pc = "L221"
    /\ net.state = "returned"
    /\ loc' = [loc EXCEPT !.answer_markdown = net.ret]
    /\ response' = IF IsErrorRecord(net.ret)
                   THEN [status |-> 500, json |-> net.ret.v]
                   ELSE [status |-> 200, json |-> [answer_markdown |-> net.ret]]
    /\ pc' = "done"
    /\ UNCHANGED <<route, data, mock, net, trace, served>>

----------------------------------------------------------------------------

Next ==
    \/ Receive
    \/ Upstream
    \/ GeminiReturn
    \/ GetRecommendationsBegin
    \/ RecommendationsReturned
    \/ ComparisonReturned
    \/ PersonasReturned
    \/ PriceTrendReturned
    \/ AskBegin
    \/ AskReturned

Spec == Init /\ [][Next]_vars

----------------------------------------------------------------------------
\* Vocabulary of the properties

REC == "/get_recommendations"
ASK == "/ask_product_ai"

\* positions in the history of the events of kind e
IdxEv(e) == {i \in DOMAIN trace : trace[i].ev = e}
\* ... of kind e of function f
Idx(e, f) == {i \in DOMAIN trace : trace[i].ev = e /\ trace[i].fn = f}

\* the functions whose POSTs went out, in order
PostedFns ==
    LET posts == SelectSeq(trace, LAMBDA x : x.ev = "post")
    IN [i \in DOMAIN posts |-> posts[i].fn]

\* t is a contiguous part of s
Contains(s, t) == \E i \in 0..(Len(s) - Len(t)) : SubSeq(s, i + 1, i + Len(t)) = t

\* a request field that is absent or empty
Missing(x) == x.t = "NoneType" \/ (x.t = "str" /\ Len(x.v) = 0)

MarkdownFields == {"recommendations_markdown", "comparison_markdown",
                   "price_trend_markdown", "persona_markdown",
                   "price_tracker_markdown"}

LaterStages == {"generate_comparison", "generate_product_personas",
                "generate_price_trend", "generate_price_tracker"}

\* the recommendations call has returned an error record
Stage1Failed ==
    \E i \in Idx("return", "generate_recommendations") : IsErrorRecord(trace[i].args[1])

\* the recommendations call has returned a text
Stage1Succeeded ==
    \E i \in Idx("return", "generate_recommendations") : trace[i].args[1].t = "str"

\* the response field of a later stage, and its fallback
FieldOf(fn) ==
    CASE fn = "generate_comparison" -> "comparison_markdown"
      [] fn = "generate_product_personas" -> "persona_markdown"
      [] fn = "generate_price_trend" -> "price_trend_markdown"
      [] fn = "generate_price_tracker" -> "price_tracker_markdown"

FallbackOf(fn) ==
    CASE fn = "generate_comparison" -> ComparisonFallback
      [] fn = "generate_product_personas" -> PersonaFallback
      [] fn = "generate_price_trend" -> PriceTrendFallback
      [] fn = "generate_price_tracker" -> PriceTrackerFallback

NonEmptyStr(x) == x.t = "str" /\ Len(x.v) > 0

Answered200 == pc = "done" /\ route = REC /\ response.status = 200

----------------------------------------------------------------------------
\* C1: in a /get_recommendations request with both fields present, once the
\* recommendations call has returned an error record, no builder other than
\* generate_recommendations is ever called and nothing more is POSTed, and the
\* response is 500 with that error record as its body, so with none of the
\* five markdown fields.
C1_RecommendationsFailureAborts ==
    (route = REC /\ Stage1Failed) =>
        /\ pc \in {"L179", "done"}
        /\ \A i \in DOMAIN trace : trace[i].fn = "generate_recommendations"
        /\ Cardinality(IdxEv("post")) = 1
        /\ pc = "done" =>
            /\ response.status = 500
            /\ \E i \in Idx("return", "generate_recommendations") :
                    response.json = trace[i].args[1].v
            /\ DOMAIN response.json \cap MarkdownFields = {}

C1_Witness ==
    /\ pc = "done" /\ route = REC /\ Stage1Failed
    /\ Truthy(data.shopping_query) /\ Truthy(data.budget)
    /\ response.status = 500

\* C4: a /get_recommendations request in which shopping_query or budget is
\* absent or empty is answered 400 {error: "Missing form data"} by the first
\* step of the handler, and no POST to the gateway is ever issued for it.
C4_MissingFormDataNoCall ==
    (route = REC /\ (Missing(data.shopping_query) \/ Missing(data.budget))) =>
        /\ pc \in {"recv", "done"}
        /\ IdxEv("post") = {} /\ IdxEv("call") = {}
        /\ net.state = "idle"
        /\ pc = "done" =>
            /\ response.status = 400
            /\ response.json = [error |-> Str(<<"Missing form data">>)]

C4_Witness ==
    /\ pc = "done" /\ route = REC
    /\ Missing(data.budget) /\ ~Missing(data.shopping_query)
    /\ response.status = 400

\* C5: a /ask_product_ai request in which context or query is absent or
\* empty is answered 400 by the first step of the handler, and no POST to
\* the gateway is ever issued for it.
C5_MissingContextOrQueryNoCall ==
    (route = ASK /\ (Missing(data.context) \/ Missing(data.query))) =>
        /\ pc \in {"recv", "done"}
        /\ IdxEv("post") = {} /\ IdxEv("call") = {}
        /\ net.state = "idle"
        /\ pc = "done" => response.status = 400

C5_Witness ==
    /\ pc = "done" /\ route = ASK
    /\ Missing(data.context) /\ ~Missing(data.query)
    /\ response.status = 400

\* C6: a /ask_product_ai request with context and query present issues
\* exactly one POST, whose content is "Context: {context}\n\nQuestion:
\* {query}"; when the call has returned, the response is 500 with the error
\* record if it returned one, and 200 {answer_markdown: text} otherwise.
C6_AskOneCallAndResponse ==
    (route = ASK /\ ~Missing(data.context) /\ ~Missing(data.query) /\ pc # "recv") =>
        /\ Cardinality(IdxEv("post")) = 1
        /\ \A i \in IdxEv("post") :
            /\ trace[i].fn = "ask_product_ai"
            /\ trace[i].args[1].v =
                 <<"Context: ">> \o data.context.v \o <<"\n\nQuestion: ">> \o data.query.v
        /\ pc = "done" =>
            \E i \in Idx("return", "ask_product_ai") :
                LET r == trace[i].args[1]
                IN IF IsErrorRecord(r)
                   THEN response.status = 500 /\ response.json = r.v
                   ELSE /\ response.status = 200
                        /\ DOMAIN response.json = {"answer_markdown"}
                        /\ response.json.answer_markdown.t = "str"
                        /\ response.json.answer_markdown.v = r.v

C6_Witness ==
    /\ pc = "done" /\ route = ASK
    /\ response.status = 200
    /\ "answer_markdown" \in DOMAIN response.json

C6_WitnessError ==
    /\ pc = "done" /\ route = ASK
    /\ response.status = 500

\* the text T returned by the recommendations call of this request
Stage1Text == loc.recommendations_markdown.v

\* C2 (as claimed): when the recommendations stage has succeeded the response
\* is 200 and, for each of the comparison, persona, price-trend and
\* price-tracker stages, the field of a stage the upstream fails holds the
\* stage's fallback text, and the field of a stage the upstream serves holds
\* a text, the one returned to that stage's call.
C2_EachLaterStageFallsBack ==
    (pc = "done" /\ route = REC /\ Stage1Succeeded) =>
        /\ response.status = 200
        /\ \A fn \in LaterStages :
            LET x == response.json[FieldOf(fn)]
            IN /\ NonEmptyStr(x)
               /\ ~mock[fn] => x = FallbackOf(fn)
               /\ mock[fn] => \A i \in Idx("return", fn) :
                                 x.v = trace[i].args[1].v

\* C3 (as claimed): a 200 response of a request all of whose gateway calls
\* returned a text holds five non-empty strings.
C3_FiveNonEmptyFields ==
    (Answered200 /\ \A i \in IdxEv("return") : trace[i].args[1].t = "str") =>
        \A f \in MarkdownFields :
            f \in DOMAIN response.json /\ NonEmptyStr(response.json[f])

\* C7 (as claimed): the comparison, persona, trend and tracker builders are
\* each called with a string of which the recommendations text T is a part.
C7_AllFourBuildersReceiveT ==
    (route = REC /\ Stage1Succeeded /\ pc # "L179") =>
        \A fn \in LaterStages : \A i \in Idx("call", fn) :
            Contains(trace[i].args[1].v, Stage1Text)

\* C7 (amended): T is exactly the value returned by the recommendations
\* call; the comparison and persona builders are called with exactly T and
\* POST a prompt that ends with T; the trend builder is called with the
\* trend prompt built from shopping_query and the tracker builder with
\* shopping_query itself.
C7_ComparisonAndPersonaReceiveT ==
    (route = REC /\ Stage1Succeeded /\ pc # "L179") =>
        /\ \A i \in Idx("return", "generate_recommendations") :
              trace[i].args[1] = loc.recommendations_markdown
        /\ \A fn \in {"generate_comparison", "generate_product_personas"} :
            /\ \A i \in Idx("call", fn) : trace[i].args = <<Str(Stage1Text)>>
            /\ \A i \in Idx("post", fn) :
                LET p == trace[i].args[1].v
                IN /\ Len(p) > Len(Stage1Text)
                   /\ SubSeq(p, Len(p) - Len(Stage1Text) + 1, Len(p)) = Stage1Text
        /\ \A i \in Idx("call", "generate_price_trend") :
              trace[i].args[1].v =
                 <<"Analyze the market for products matching the description: '">>
                 \o data.shopping_query.v \o <<"'.">>
        /\ \A i \in Idx("call", "generate_price_tracker") :
              trace[i].args = <<data.shopping_query>>
        /\ pc = "done" =>
              \A fn \in LaterStages : Cardinality(Idx("call", fn)) = 1

C7_Witness ==
    /\ Answered200
    /\ Idx("post", "generate_comparison") # {}
    /\ Idx("post", "generate_product_personas") # {}
    /\ Stage1Text = <<"T2">>

\* C8 (as claimed): a request whose recommendations stage succeeds is
\* answered after exactly five POSTs, in the order recommendations,
\* comparison, personas, price trend, price tracker.
C8_FivePostsInOrder ==
    (pc = "done" /\ route = REC /\ Stage1Succeeded) =>
        PostedFns = <<"generate_recommendations", "generate_comparison",
                      "generate_product_personas", "generate_price_trend",
                      "generate_price_tracker">>

\* the outcome of the invocation that has just returned
Got2xx == net.reply.transport = "ok" /\ net.reply.status \in 200..299
GotShape == net.reply.transport = "ok" /\ HasShape(net.reply.body)
GotText == net.reply.body.doc.candidates[1].content.parts[1].text

\* every invocation has issued one POST: none pending without one, none retried
OnePostPerInvocation ==
    Cardinality(IdxEv("post")) =
        Cardinality(IdxEv("return")) + (IF net.state \in {"sent", "replied"} THEN 1 ELSE 0)

\* C9 (as claimed): every invocation of call_gemini_api issues one POST and
\* returns the first candidate's text when the status is 2xx and the body has
\* the shape, and an error record in every other outcome.
C9_TextIff2xxAndShape ==
    /\ OnePostPerInvocation
    /\ net.state = "returned" =>
          IF Got2xx /\ GotShape
          THEN net.ret.t = "str" /\ net.ret.v = GotText
          ELSE IsErrorRecord(net.ret)

\* C9 (amended): every invocation of call_gemini_api issues one POST and
\* returns the first candidate's text when the transport succeeds, the
\* status is not 4xx or 5xx and the body has the shape, and an error record
\* {error: message} in every other outcome.
C9_TextIffNoErrorStatusAndShape ==
    /\ OnePostPerInvocation
    /\ net.state = "returned" =>
          IF GotShape /\ ~(net.reply.status \in 400..599)
          THEN net.ret.t = "str" /\ net.ret.v = GotText
          ELSE /\ IsErrorRecord(net.ret)
               /\ DOMAIN net.ret.v = {"error"}
               /\ NonEmptyStr(net.ret.v.error)

C9_Witness ==
    /\ net.state = "returned"
    /\ net.reply.transport = "ok" /\ net.reply.status = 200
    /\ net.reply.body.fmt = "json" /\ ~HasShape(net.reply.body)
    /\ IsErrorRecord(net.ret)

====
